---- MODULE Spec2Model ----
(***************************************************************************)
(* Model of Video-duration-stats.py: the scan of a directory tree for mp4  *)
(* files, the concurrent probes, the upward accumulation of durations, the *)
(* collapse of single-video sub-folders, the tree and its rendering.       *)
(*                                                                         *)
(* Paths are sequences of components of an absolute POSIX path: "/" is     *)
(* << >>, "/R" is <<"R">>, and a trailing separator is a last component "" *)
(* ("/R/" is <<"R", "">>).                                                 *)
(*                                                                         *)
(* Durations are Python floats (IEEE-754 doubles).  A non-negative double  *)
(* is the set of the exponents of its one bits: 1.0 is {0}, 0.75 is        *)
(* {-1, -2}, 0.0 is {}.  Addition is the exact sum rounded to MantissaBits *)
(* significant bits, ties to even.                                         *)
(***************************************************************************)
EXTENDS Integers, Sequences, FiniteSets

\* Most files (media or not) on disk under the scanned directory.
MaxFiles == 3
\* Largest whole number of seconds handed to format_duration on its own.
MaxSeconds == 7300

\* Significant bits of a Python float.
MantissaBits == 53

----------------------------------------------------------------------------
\* Floats

Zero == {}

MaxBit(S) == CHOOSE x \in S : \A y \in S : y <= x

RECURSIVE AddBit(_, _)
\* S + 2^k, exactly (binary carry)
AddBit(S, k) == IF k \in S THEN AddBit(S \ {k}, k + 1) ELSE S \cup {k}

RECURSIVE ExactAdd(_, _)
\* the real-number sum of two values
ExactAdd(S, T) ==
    IF T = {} THEN S
    ELSE LET k == CHOOSE x \in T : TRUE IN ExactAdd(AddBit(S, k), T \ {k})

\* round to nearest, ties to even, keeping MantissaBits significant bits
RoundFloat(S) ==
    IF S = {} THEN {}
    ELSE LET lo      == MaxBit(S) - (MantissaBits - 1)
             kept    == {k \in S : k >= lo}
             dropped == S \ kept
             half    == lo - 1
             up      == half \in dropped /\ (dropped # {half} \/ lo \in kept)
         IN  IF up THEN AddBit(kept, lo) ELSE kept

\* float + float
FloatAdd(S, T) == RoundFloat(ExactAdd(S, T))

RECURSIVE Pow2(_)
Pow2(k) == IF k = 0 THEN 1 ELSE 2 * Pow2(k - 1)

RECURSIVE SumPow2(_)
SumPow2(S) == IF S = {} THEN 0
              ELSE LET k == CHOOSE x \in S : TRUE IN Pow2(k) + SumPow2(S \ {k})

\* int(x): truncation of a non-negative float
Trunc(S) == SumPow2({k \in S : k >= 0})

\* the float of a whole number n, plus one half when half is TRUE
FloatOf(n, half) ==
    {k \in 0..30 : (n \div Pow2(k)) % 2 = 1} \cup (IF half THEN {-1} ELSE {})

\* 0.3 and 2.4 as doubles
D03 == {-54, -53, -50, -49, -46, -45, -42, -41, -38, -37, -34, -33, -30, -29,
        -26, -25, -22, -21, -18, -17, -14, -13, -10, -9, -6, -5, -2}
D24 == {-51, -50, -47, -46, -43, -42, -39, -38, -35, -34, -31, -30, -27, -26,
        -23, -22, -19, -18, -15, -14, -11, -10, -7, -6, -3, -2, 1}

\* what VideoFileClip(path).duration can give
Durations == {D03, D24}

\* a probe either raises or yields a duration
Failure == [ok |-> FALSE, duration |-> Zero]
ProbeOutcomes == {Failure} \cup {[ok |-> TRUE, duration |-> d] : d \in Durations}

----------------------------------------------------------------------------
\* Paths (os.path, posix)

Last(s) == s[Len(s)]
Front(s) == SubSeq(s, 1, Len(s) - 1)

\* os.path.dirname: "/R/" -> "/R", "/R" -> "/", "/" -> "/"
DirName(p) == IF p = << >> THEN << >> ELSE Front(p)

\* os.path.basename: "/R/" -> "", "/R" -> "R", "/" -> ""
BaseName(p) == IF p = << >> THEN "" ELSE Last(p)

\* os.path.join(p, name)
Join(p, name) ==
    IF p # << >> /\ Last(p) = "" THEN Append(Front(p), name) ELSE Append(p, name)

RECURSIVE JoinAll(_, _)
JoinAll(p, names) ==
    IF names = << >> THEN p ELSE JoinAll(Join(p, Head(names)), Tail(names))

RECURSIVE NormPath(_)
\* os.path.normpath: empty and "." components dropped, ".." climbs
NormPath(p) ==
    IF p = << >> THEN << >>
    ELSE LET n == NormPath(Front(p))
             c == Last(p)
         IN  IF c = "" \/ c = "." THEN n
             ELSE IF c = ".." THEN (IF n = << >> THEN << >> ELSE Front(n))
             ELSE Append(n, c)

\* x.count(os.sep): "/" has one separator, every component brings one
SepCount(p) == IF p = << >> THEN 1 ELSE Len(p)

\* the order of Python's str comparison on the names that occur
NameRank(n) ==
    CASE n = ""  -> 0
      [] n = "." -> 1
      [] n = "R" -> 2
      [] n = "a" -> 3
      [] n = "b" -> 4
      [] n = "c" -> 5
      [] n = "d" -> 6

\* file.lower()
Lower(name) ==
    CASE name = "V.MP4" -> "v.mp4"
      [] OTHER -> name

\* s.endswith(".mp4")
EndsWithMp4(name) == name = "v.mp4"

----------------------------------------------------------------------------
\* Python dicts keep insertion order: a dict is a sequence of entries
\* [k |-> key, v |-> value] with distinct keys.

Keys(m) == {m[i].k : i \in DOMAIN m}

HasKey(m, key) == \E i \in DOMAIN m : m[i].k = key

\* m.get(key, default)
Get(m, key, default) ==
    IF HasKey(m, key) THEN m[CHOOSE i \in DOMAIN m : m[i].k = key].v ELSE default

\* m.pop(key, None)
Pop(m, key) == SelectSeq(m, LAMBDA e : e.k # key)

\* defaultdict(float): m[key] += duration
AddTo(m, key, duration) ==
    IF HasKey(m, key)
    THEN [i \in DOMAIN m |->
            IF m[i].k = key THEN [k |-> key, v |-> FloatAdd(m[i].v, duration)]
            ELSE m[i]]
    ELSE Append(m, [k |-> key, v |-> FloatAdd(Zero, duration)])

\* defaultdict(list): m[key].append(x)
AppendTo(m, key, x) ==
    IF HasKey(m, key)
    THEN [i \in DOMAIN m |->
            IF m[i].k = key THEN [k |-> key, v |-> Append(m[i].v, x)] ELSE m[i]]
    ELSE Append(m, [k |-> key, v |-> <<x>>])

----------------------------------------------------------------------------
\* The disk: files that may lie under the scanned directory, each in a
\* directory given relative to it.

Slots ==
    { [dir |-> << >>,         name |-> "v.mp4"],
      [dir |-> << >>,         name |-> "n.txt"],
      [dir |-> <<"a">>,       name |-> "v.mp4"],
      [dir |-> <<"a", "b">>,  name |-> "v.mp4"],
      [dir |-> <<"a", "c">>,  name |-> "v.mp4"],
      [dir |-> <<"d">>,       name |-> "V.MP4"] }

\* the directories in the order os.walk visits them (top-down)
WalkOrder == << << >>, <<"a">>, <<"a", "b">>, <<"a", "c">>, <<"d">> >>

\* spellings of an existing directory the user may type: "/", "/R", "/R/"
RootSpellings == { << >>, <<"R">>, <<"R", "">> }

\* a path that does not exist
Missing == <<"missing">>

\* os.path.exists(root_folder)
Exists(path) == path \in RootSpellings

\* lines 24-27: the mp4 files of one directory, as os.walk spells them
FilesIn(disk, folder_path, dir) ==
    LET root == JoinAll(folder_path, dir)
        here(name) == [dir |-> dir, name |-> name] \in disk
                      /\ EndsWithMp4(Lower(name))
    IN  (IF here("V.MP4") THEN <<Join(root, "V.MP4")>> ELSE << >>)
        \o (IF here("n.txt") THEN <<Join(root, "n.txt")>> ELSE << >>)
        \o (IF here("v.mp4") THEN <<Join(root, "v.mp4")>> ELSE << >>)

RECURSIVE WalkFrom(_, _, _)
WalkFrom(disk, folder_path, i) ==
    IF i > Len(WalkOrder) THEN << >>
    ELSE FilesIn(disk, folder_path, WalkOrder[i]) \o WalkFrom(disk, folder_path, i + 1)

\* lines 22-27: video_paths
Walk(disk, folder_path) == WalkFrom(disk, folder_path, 1)

\* lines 7-16: get_video_duration, given what the clip does
GetVideoDuration(outcome) == IF outcome.ok THEN outcome.duration ELSE Zero

----------------------------------------------------------------------------
\* Upward accumulation

\* a slip: only the file's own directory is credited
AccumulateOnlyParent(m, current_dir, duration, folder_path) ==
    AddTo(m, current_dir, duration)

RECURSIVE AccumulateUp(_, _, _, _)
\* lines 42-49: the while loop
AccumulateUp(m, current_dir, duration, folder_path) ==
    LET m2 == AddTo(m, current_dir, duration)
    IN  IF NormPath(current_dir) = NormPath(folder_path) THEN m2
        ELSE LET parent == DirName(current_dir)
             IN  IF parent = current_dir THEN m2
                 ELSE AccumulateUp(m2, parent, duration, folder_path)

----------------------------------------------------------------------------
\* Collapse of single-video sub-folders

RECURSIVE ParentMapFrom(_, _, _)
ParentMapFrom(m, i, parent_map) ==
    IF i > Len(m) THEN parent_map
    ELSE ParentMapFrom(m, i + 1, AppendTo(parent_map, DirName(m[i].k), m[i].k))

\* lines 58-61: parent_map
ParentMap(m) == ParentMapFrom(m, 1, << >>)

\* line 70: video_children
VideoChildren(m, children) == SelectSeq(children, LAMBDA c : Get(m, c, Zero) # Zero)

\* a slip: any parent with a video child loses its first one
CollapsesSome(video_children) == Len(video_children) >= 1

\* line 71
Collapses(video_children) == Len(video_children) = 1

RECURSIVE MergeFrom(_, _, _, _)
\* lines 65-74: the loop over parent_map.items()
MergeFrom(m, parent_map, i, merged_map) ==
    IF i > Len(parent_map) THEN merged_map
    ELSE LET parent == parent_map[i].k
             video_children == VideoChildren(m, parent_map[i].v)
         IN  IF ~ HasKey(merged_map, parent)
             THEN MergeFrom(m, parent_map, i + 1, merged_map)
             ELSE IF Collapses(video_children)
             THEN MergeFrom(m, parent_map, i + 1, Pop(merged_map, video_children[1]))
             ELSE MergeFrom(m, parent_map, i + 1, merged_map)

\* lines 54-76
MergeSingleVideoSubfolder(m) == MergeFrom(m, ParentMap(m), 1, m)

----------------------------------------------------------------------------
\* Rendering

\* A rendered duration is the sequence of the parts that " ".join puts
\* together; unit "h" stands for the suffix of hours, "m" for that of
\* minutes, "s" for that of seconds.
Part(n, unit) == [n |-> n, unit |-> unit]

\* line 99: the text returned when parts is empty
ZeroToken == <<Part(0, "s")>>

\* a slip: the hour part only when it is positive
FormatDurationHidingHours(seconds) ==
    LET secs == Trunc(seconds)
        h == secs \div 3600
        m == (secs % 3600) \div 60
        s == secs % 60
        parts == (IF h > 0 THEN <<Part(h, "h")>> ELSE << >>)
                 \o (IF m > 0 THEN <<Part(m, "m")>> ELSE << >>)
                 \o (IF s > 0 THEN <<Part(s, "s")>> ELSE << >>)
    IN  IF parts = << >> THEN ZeroToken ELSE parts

\* lines 78-101
FormatDuration(seconds) ==
    LET secs == Trunc(seconds)
        h == secs \div 3600
        m == (secs % 3600) \div 60
        s == secs % 60
        parts == <<Part(h, "h")>>
                 \o (IF m > 0 THEN <<Part(m, "m")>> ELSE << >>)
                 \o (IF s > 0 THEN <<Part(s, "s")>> ELSE << >>)
    IN  IF parts = << >> THEN ZeroToken ELSE parts

RECURSIVE InsertByDepth(_, _)
\* x goes behind every element that is not deeper than it (a stable sort)
InsertByDepth(sorted, x) ==
    IF sorted = << >> THEN <<x>>
    ELSE IF SepCount(Last(sorted)) <= SepCount(x) THEN Append(sorted, x)
    ELSE Append(InsertByDepth(Front(sorted), x), Last(sorted))

RECURSIVE SortByDepthFrom(_, _, _)
SortByDepthFrom(folders, i, sorted) ==
    IF i > Len(folders) THEN sorted
    ELSE SortByDepthFrom(folders, i + 1, InsertByDepth(sorted, folders[i]))

\* line 109: folders.sort(key=lambda x: x.count(os.sep))
SortByDepth(folders) == SortByDepthFrom(folders, 1, << >>)

RECURSIVE BuildTreeFrom(_, _, _, _)
\* lines 110-113
BuildTreeFrom(folders, root, i, t) ==
    IF i > Len(folders) THEN t
    ELSE IF folders[i] # root
    THEN BuildTreeFrom(folders, root, i + 1, AppendTo(t, DirName(folders[i]), folders[i]))
    ELSE BuildTreeFrom(folders, root, i + 1, t)

\* lines 103-114
BuildTree(m, root) ==
    BuildTreeFrom(SortByDepth([i \in DOMAIN m |-> m[i].k]), root, 1, << >>)

RECURSIVE InsertByBaseName(_, _)
InsertByBaseName(sorted, x) ==
    IF sorted = << >> THEN <<x>>
    ELSE IF NameRank(BaseName(Last(sorted))) <= NameRank(BaseName(x))
    THEN Append(sorted, x)
    ELSE Append(InsertByBaseName(Front(sorted), x), Last(sorted))

RECURSIVE SortByBaseNameFrom(_, _, _)
SortByBaseNameFrom(children, i, sorted) ==
    IF i > Len(children) THEN sorted
    ELSE SortByBaseNameFrom(children, i + 1, InsertByBaseName(sorted, children[i]))

\* lines 127 and 143: sorted(children, key=lambda x: os.path.basename(x))
SortedChildren(children) == SortByBaseNameFrom(children, 1, << >>)

\* lines 123-124 and 141-142: hashes is the number of '#' of the heading;
\* node is the directory the line stands for (not printed)
Heading(m, current, level) ==
    [hashes |-> level + 1, name |-> BaseName(current),
     text |-> FormatDuration(Get(m, current, Zero)), node |-> current]

RECURSIVE PrintTree(_, _, _, _)
RECURSIVE PrintChildren(_, _, _, _, _)
\* lines 116-128 and 140-144: the lines of the subtree of current
PrintTree(m, t, current, level) ==
    <<Heading(m, current, level)>>
    \o PrintChildren(m, t, SortedChildren(Get(t, current, << >>)), 1, level + 1)

PrintChildren(m, t, children, i, level) ==
    IF i > Len(children) THEN << >>
    ELSE PrintTree(m, t, children[i], level) \o PrintChildren(m, t, children, i + 1, level)

----------------------------------------------------------------------------
\* The program

VARIABLES
    root_folder,          \* sys.argv[1] or the typed path
    disk,                 \* the files under the scanned directory
    probe,                \* what the clip of each mp4 file does when opened
    pc,                   \* where the main program is
    video_paths,          \* line 22
    finished,             \* the paths whose future is done
    consumed,             \* the paths the as_completed loop has dealt with, in order
    folder_duration_map,  \* line 33: the dict the loop fills
    folder_durations,     \* line 163: what calculate_folder_durations returned
    tree,                 \* line 166
    console,              \* the heading lines print_tree printed
    markdown,             \* the file export_markdown wrote
    fmt_arg,              \* format_duration on its own: the argument
    fmt_text              \* format_duration on its own: the result

vars == <<root_folder, disk, probe, pc, video_paths, finished, consumed,
          folder_duration_map, folder_durations, tree, console, markdown,
          fmt_arg, fmt_text>>

ToSet(s) == {s[i] : i \in DOMAIN s}

NoFile == [written |-> FALSE, name |-> "", lines |-> << >>]

Init ==
    /\ root_folder \in RootSpellings \cup {Missing}
    /\ disk \in {d \in SUBSET Slots : Cardinality(d) <= MaxFiles}
    /\ root_folder = Missing => disk = {}
    /\ probe \in [ToSet(Walk(disk, root_folder)) -> ProbeOutcomes]
    /\ pc = "main"
    /\ video_paths = << >>
    /\ finished = {}
    /\ consumed = << >>
    /\ folder_duration_map = << >>
    /\ folder_durations = << >>
    /\ tree = << >>
    /\ console = << >>
    /\ markdown = NoFile
    /\ fmt_arg = Zero
    /\ fmt_text = << >>

\* lines 159-161
RootNotFound ==
    /\ pc = "main"
    /\ ~ Exists(root_folder)
    /\ pc' = "exit"
    /\ UNCHANGED <<root_folder, disk, probe, video_paths, finished, consumed,
                   folder_duration_map, folder_durations, tree, console,
                   markdown, fmt_arg, fmt_text>>

\* lines 159-163: the root exists, calculate_folder_durations is called
RootFound ==
    /\ pc = "main"
    /\ Exists(root_folder)
    /\ pc' = "walk"
    /\ UNCHANGED <<root_folder, disk, probe, video_paths, finished, consumed,
                   folder_duration_map, folder_durations, tree, console,
                   markdown, fmt_arg, fmt_text>>

\* lines 22-31: no mp4 file, {} is returned to line 163
ScanEmpty ==
    /\ pc = "walk"
    /\ Walk(disk, root_folder) = << >>
    /\ video_paths' = << >>
    /\ folder_durations' = << >>
    /\ pc' = "build"
    /\ UNCHANGED <<root_folder, disk, probe, finished, consumed,
                   folder_duration_map, tree, console, markdown, fmt_arg, fmt_text>>

\* lines 22-36: the files are found and one probe per file is submitted
ScanSubmit ==
    /\ pc = "walk"
    /\ Walk(disk, root_folder) # << >>
    /\ video_paths' = Walk(disk, root_folder)
    /\ folder_duration_map' = << >>
    /\ pc' = "gather"
    /\ UNCHANGED <<root_folder, disk, probe, finished, consumed,
                   folder_durations, tree, console, markdown, fmt_arg, fmt_text>>

\* lines 7-16 on a pool thread: the probe of one file ends
ProbeDone(p) ==
    /\ pc = "gather"
    /\ p \in ToSet(video_paths) \ finished
    /\ finished' = finished \cup {p}
    /\ UNCHANGED <<root_folder, disk, probe, pc, video_paths, consumed,
                   folder_duration_map, folder_durations, tree, console,
                   markdown, fmt_arg, fmt_text>>

\* lines 37-49: as_completed hands over a future that is done
Accumulate(p) ==
    /\ pc = "gather"
    /\ p \in finished \ ToSet(consumed)
    /\ folder_duration_map' =
          AccumulateUp(folder_duration_map, DirName(p),
                       GetVideoDuration(probe[p]), root_folder)
    /\ consumed' = Append(consumed, p)
    /\ UNCHANGED <<root_folder, disk, probe, pc, video_paths, finished,
                   folder_durations, tree, console, markdown, fmt_arg, fmt_text>>

\* a slip: the loop ends when no finished future is left to consume
LoopDrained(paths, done, seen) == Len(seen) = Cardinality(done)

\* line 37: as_completed is exhausted when it has yielded every future
LoopExhausted(paths, done, seen) == Len(seen) = Len(paths)

\* lines 51-52: after the loop the map is collapsed and returned
Merge ==
    /\ pc = "gather"
    /\ LoopExhausted(video_paths, finished, consumed)
    /\ folder_durations' = MergeSingleVideoSubfolder(folder_duration_map)
    /\ pc' = "build"
    /\ UNCHANGED <<root_folder, disk, probe, video_paths, finished, consumed,
                   folder_duration_map, tree, console, markdown, fmt_arg, fmt_text>>

\* line 166
Build ==
    /\ pc = "build"
    /\ tree' = BuildTree(folder_durations, root_folder)
    /\ pc' = "print"
    /\ UNCHANGED <<root_folder, disk, probe, video_paths, finished, consumed,
                   folder_duration_map, folder_durations, console, markdown,
                   fmt_arg, fmt_text>>

\* line 167
Render ==
    /\ pc = "print"
    /\ console' = PrintTree(folder_durations, tree, root_folder, 0)
    /\ pc' = "export"
    /\ UNCHANGED <<root_folder, disk, probe, video_paths, finished, consumed,
                   folder_duration_map, folder_durations, tree, markdown,
                   fmt_arg, fmt_text>>

RECURSIVE RStripSep(_)
\* root_folder.rstrip(os.sep)
RStripSep(p) == IF p # << >> /\ Last(p) = "" THEN RStripSep(Front(p)) ELSE p

\* lines 130-151 (called at line 169)
Export ==
    /\ pc = "export"
    /\ markdown' =
          [written |-> TRUE,
           name    |-> BaseName(RStripSep(root_folder)),
           lines   |-> PrintTree(folder_durations,
                                 BuildTree(folder_durations, root_folder),
                                 root_folder, 0)]
    /\ pc' = "done"
    /\ UNCHANGED <<root_folder, disk, probe, video_paths, finished, consumed,
                   folder_duration_map, folder_durations, tree, console,
                   fmt_arg, fmt_text>>

Next ==
    \/ RootNotFound
    \/ RootFound
    \/ ScanEmpty
    \/ ScanSubmit
    \/ \E p \in ToSet(video_paths) : ProbeDone(p)
    \/ \E p \in ToSet(video_paths) : Accumulate(p)
    \/ Merge
    \/ Build
    \/ Render
    \/ Export

Spec == Init /\ [][Next]_vars

----------------------------------------------------------------------------
\* format_duration on its own, on every total up to MaxSeconds and a half

InitFormat ==
    /\ root_folder = Missing
    /\ disk = {}
    /\ probe = << >>
    /\ pc = "format"
    /\ video_paths = << >>
    /\ finished = {}
    /\ consumed = << >>
    /\ folder_duration_map = << >>
    /\ folder_durations = << >>
    /\ tree = << >>
    /\ console = << >>
    /\ markdown = NoFile
    /\ fmt_arg \in {FloatOf(n, half) : n \in 0..MaxSeconds, half \in BOOLEAN}
    /\ fmt_text = << >>

\* lines 78-101
Format ==
    /\ pc = "format"
    /\ fmt_text' = FormatDuration(fmt_arg)
    /\ pc' = "formatted"
    /\ UNCHANGED <<root_folder, disk, probe, video_paths, finished, consumed,
                   folder_duration_map, folder_durations, tree, console,
                   markdown, fmt_arg>>

NextFormat == Format

SpecFormat == InitFormat /\ [][NextFormat]_vars

----------------------------------------------------------------------------
\* Properties

IsPrefix(a, b) == Len(a) <= Len(b) /\ SubSeq(b, 1, Len(a)) = a

\* the mp4 files on disk
MediaFiles == {f \in disk : EndsWithMp4(Lower(f.name))}

\* what a probe contributes: its duration, or 0 when it failed
Contribution(p) == IF probe[p].ok THEN probe[p].duration ELSE Zero

\* the accumulation loop is over and line 51 has not run yet
LoopOver == pc = "gather" /\ Len(consumed) = Len(video_paths)

\* calculate_folder_durations has returned a map made from files
Returned == video_paths # << >> /\ pc \in {"build", "print", "export", "done"}

\* it has just returned it to line 163
JustReturned == video_paths # << >> /\ pc = "build"

\* the directories from the parent of some scanned file up to the scan root
OnPathToRoot ==
    UNION {{NormPath(root_folder) \o SubSeq(f.dir, 1, j) : j \in 0..Len(f.dir)} :
              f \in MediaFiles}

RECURSIVE SumUnder(_, _)
\* the float sum, in the order consumed, of the contributions of the first i
\* consumed files that lie under directory d
SumUnder(d, i) ==
    IF i = 0 THEN Zero
    ELSE IF IsPrefix(d, NormPath(consumed[i]))
    THEN FloatAdd(SumUnder(d, i - 1), Contribution(consumed[i]))
    ELSE SumUnder(d, i - 1)

\* C1: once the accumulation loop is over, the keys of the flat map are, one
\* key each, exactly the directories from some scanned file's parent up to
\* and including the scan root, and the total of every key is the sum
\* (Python float addition, in the order the results were consumed, a failed
\* probe counting 0) of the durations of the scanned files under it.
C1_AccumulatedTotals ==
    LoopOver =>
        /\ {NormPath(k) : k \in Keys(folder_duration_map)} = OnPathToRoot
        /\ Len(folder_duration_map) = Cardinality(OnPathToRoot)
        /\ \A i \in DOMAIN folder_duration_map :
              folder_duration_map[i].v =
                 SumUnder(NormPath(folder_duration_map[i].k), Len(consumed))

\* three files were scanned, one probe failed, and the loop is over with
\* three directories credited
C1_Witness ==
    /\ LoopOver
    /\ Len(video_paths) = 3
    /\ \E p \in ToSet(video_paths) : ~ probe[p].ok
    /\ \E p \in ToSet(video_paths) : probe[p].ok
    /\ Len(folder_duration_map) = 3

\* the children of parent among the keys of m that have a positive total
PositiveChildren(m, parent) ==
    {k \in Keys(m) : DirName(k) = parent /\ Get(m, k, Zero) # Zero}

\* C2: the collapse removes d exactly when d's parent is a key of the map it
\* was given and d is that parent's only child with a positive total, in
\* whatever order the keys were inserted.
C2_RemovedIffOnlyVideoChild ==
    Returned =>
        \A d \in Keys(folder_duration_map) :
            (d \notin Keys(folder_durations))
            <=> /\ DirName(d) \in Keys(folder_duration_map)
                /\ PositiveChildren(folder_duration_map, DirName(d)) = {d}

\* C3: the key of the scan root survives the collapse with its total, and a
\* key whose parent is not in the map is never removed.
C3_RootSurvives ==
    Returned =>
        /\ \E k \in Keys(folder_duration_map) :
              /\ NormPath(k) = NormPath(root_folder)
              /\ HasKey(folder_durations, k)
              /\ Get(folder_durations, k, Zero) = Get(folder_duration_map, k, Zero)
        /\ \A d \in Keys(folder_duration_map) :
              DirName(d) \notin Keys(folder_duration_map)
                 => d \in Keys(folder_durations)

RECURSIVE AccumulateAll(_, _)
\* the map the loop builds when it consumes the results in the given order
AccumulateAll(paths, i) ==
    IF i = 0 THEN << >>
    ELSE AccumulateUp(AccumulateAll(paths, i - 1), DirName(paths[i]),
                      GetVideoDuration(probe[paths[i]]), root_folder)

\* the heading lines of the run in which the probes are consumed in the
\* order they were submitted
LinesInSubmissionOrder ==
    LET m  == IF video_paths = << >> THEN << >>
              ELSE MergeSingleVideoSubfolder(AccumulateAll(video_paths, Len(video_paths)))
    IN  PrintTree(m, BuildTree(m, root_folder), root_folder, 0)

\* the printed part of a heading line
Shown(lines) ==
    [i \in DOMAIN lines |->
        [hashes |-> lines[i].hashes, name |-> lines[i].name, text |-> lines[i].text]]

\* C4: the heading lines printed and exported do not depend on the order in
\* which the probes complete and are consumed: they are those of the run
\* that consumes them in submission order.
C4_OutputIgnoresCompletionOrder ==
    pc = "done" =>
        /\ Shown(console) = Shown(LinesInSubmissionOrder)
        /\ Shown(markdown.lines) = Shown(LinesInSubmissionOrder)

\* C5: print_tree emits exactly one heading line for every key of the
\* collapsed map, and none is missing.
C5_OneLinePerKey ==
    (pc = "done" /\ video_paths # << >>) =>
        /\ {console[i].node : i \in DOMAIN console} = Keys(folder_durations)
        /\ Len(console) = Len(folder_durations)

\* C6: when no mp4 file is found the empty map is returned and nothing is
\* built, printed or exported afterwards.
C6_EmptyScanStops ==
    (video_paths = << >> /\ pc \notin {"main", "walk", "exit"}) =>
        /\ folder_durations = << >>
        /\ pc = "build"
        /\ console = << >>
        /\ ~ markdown.written

\* C7: collapsing the collapsed map again removes nothing and changes no
\* total.
C7_MergeIdempotent ==
    JustReturned => MergeSingleVideoSubfolder(folder_durations) = folder_durations

\* a collapse that removed a key and left at least two has been collapsed
\* again
C7_Witness ==
    /\ JustReturned
    /\ Len(folder_durations) < Len(folder_duration_map)
    /\ Len(folder_durations) >= 2
    /\ \E k \in Keys(folder_durations) : DirName(k) \in Keys(folder_durations)

\* the parts of a text with the given unit
PartsOf(text, unit) == {i \in DOMAIN text : text[i].unit = unit}

\* what every rendered total shows: the hours always, the minutes and the
\* seconds exactly when positive
ShowsParts(arg, text) ==
    LET secs == Trunc(arg)
    IN  /\ text # << >>
        /\ \E i \in DOMAIN text : text[i] = Part(secs \div 3600, "h")
        /\ (PartsOf(text, "m") # {}) <=> ((secs % 3600) \div 60 > 0)
        /\ \A i \in PartsOf(text, "m") : text[i].n = (secs % 3600) \div 60
        /\ (PartsOf(text, "s") # {}) <=> (secs % 60 > 0)
        /\ \A i \in PartsOf(text, "s") : text[i].n = secs % 60

\* C8 as claimed: besides the parts shown, a total that truncates to 0 is
\* rendered as the text of the function's dedicated zero-duration return.
C8_ZeroIsZeroToken ==
    pc = "formatted" =>
        /\ ShowsParts(fmt_arg, fmt_text)
        /\ Trunc(fmt_arg) = 0 => fmt_text = ZeroToken

\* C8 amended: format_duration returns a non-empty text that always has the
\* hour part, has the minute part exactly when it is positive and the
\* seconds part exactly when it is positive; a total that truncates to 0 is
\* rendered as the hour part alone, never as the zero-duration return.
C8_FormatParts ==
    pc = "formatted" =>
        /\ ShowsParts(fmt_arg, fmt_text)
        /\ Trunc(fmt_arg) = 0 => (fmt_text = <<Part(0, "h")>> /\ fmt_text # ZeroToken)

\* half a second has been formatted
C8_Witness ==
    /\ pc = "formatted"
    /\ fmt_arg = FloatOf(0, TRUE)
    /\ fmt_text = <<Part(0, "h")>>

\* C9 as claimed: nothing is added to the flat map before every submitted
\* probe has completed.
C9_BarrierBeforeAccumulation ==
    folder_duration_map # << >> => finished = ToSet(video_paths)

\* C9 amended: a probe's result is added to the flat map only after that
\* probe has completed, and the map is collapsed and returned only after
\* every submitted probe has completed and has been added.
C9_BarrierBeforeMerge ==
    /\ ToSet(consumed) \subseteq finished
    /\ folder_duration_map # << >> => consumed # << >>
    /\ Returned => /\ finished = ToSet(video_paths)
                   /\ ToSet(consumed) = ToSet(video_paths)

\* the map of a scan of three files has been returned
C9_Witness ==
    /\ Returned
    /\ Len(video_paths) = 3
    /\ pc = "build"

\* C10: however the root is spelled, it is a key of the flat map, the first
\* line shows its base name and the total of all scanned files, and the
\* keys directly below it are printed under it.
C10_RootIsAKey ==
    (pc = "done" /\ video_paths # << >>) =>
        /\ HasKey(folder_duration_map, root_folder)
        /\ console[1].name = BaseName(NormPath(root_folder))
        /\ console[1].text =
              FormatDuration(SumUnder(NormPath(root_folder), Len(consumed)))
        /\ \A k \in Keys(folder_durations) :
              (NormPath(DirName(k)) = NormPath(root_folder) /\ k # root_folder)
                 => \E i \in DOMAIN console : console[i].node = k /\ console[i].hashes = 2

====
